---- MODULE Spec2Model ----
(***************************************************************************)
(* csv-col-stats: the per-column classification state machine              *)
(* (parser/column.rs), the running statistics (parser.rs), the exact       *)
(* two-heap median (parser/median.rs) and the per-file driver              *)
(* (parser/file.rs), joined by main (main.rs).                             *)
(*                                                                         *)
(* Representation.                                                         *)
(*   - A field (&[u8]) is a tuple of one-character strings.                *)
(*   - Option<T> is a tuple: <<>> is None, <<v>> is Some(v).               *)
(*   - i64 is scaled down to I64Bits bits (TLC integers are 32 bits wide). *)
(*   - A median (f64) is held as an integer number of halves: every f64    *)
(*     the median code produces is (a + b) / 2 of two integers. A mean     *)
(*     (f64 rounded to two decimals) is held as a number of hundredths.    *)
(*   - A BinaryHeap is held as the ascending sequence of its elements:     *)
(*     only push, pop, peek, len and is_empty are used by the code.        *)
(***************************************************************************)
EXTENDS Integers, Sequences, FiniteSets, TLC

\* ------------------------------------------------------------------ bounds
\* width of the scaled-down i64
I64Bits == 6
\* data rows the reader may yield before end of stream
MaxRows == 2
\* values added to a stand-alone MedianHeap
MaxAdds == 6
\* the stand-alone MedianHeap draws its values from 0..MaxHeapValue
MaxHeapValue == 2
\* the memory budget handed to the worker, in bytes
MemoryBudget == 4
\* values fed to a stand-alone ColStats
MaxFed == 3
MaxFiles == 2

I64_MAX == 2 ^ (I64Bits - 1) - 1
I64_MIN == -(2 ^ (I64Bits - 1))

None == <<>>
Some(v) == <<v>>

\* ------------------------------------------------------- bytes and parsing
AsciiWhitespace == {" ", "\t", "\n", "\r", "\f"}

DigitChars == <<"0", "1", "2", "3", "4", "5", "6", "7", "8", "9">>

IsDigit(c) == \E i \in 1..Len(DigitChars) : DigitChars[i] = c

DigitValue(c) == (CHOOSE i \in 1..Len(DigitChars) : DigitChars[i] = c) - 1

is_empty(bytes) ==
    \/ bytes = <<>>
    \/ bytes = <<"N", "a", "N">>
    \/ bytes = <<"n", "a", "n">>
    \/ bytes = <<"n", "u", "l", "l">>
    \/ bytes = <<"N", "/", "A">>

RECURSIVE TrimStart(_)
TrimStart(bytes) ==
    IF bytes # <<>> /\ Head(bytes) \in AsciiWhitespace
    THEN TrimStart(Tail(bytes))
    ELSE bytes

RECURSIVE TrimEnd(_)
TrimEnd(bytes) ==
    IF bytes # <<>> /\ bytes[Len(bytes)] \in AsciiWhitespace
    THEN TrimEnd(SubSeq(bytes, 1, Len(bytes) - 1))
    ELSE bytes

trim_bytes(bytes) == TrimEnd(TrimStart(bytes))

\* the magnitude of a digit string, most significant digit first
RECURSIVE Magnitude(_, _)
Magnitude(digits, acc) ==
    IF digits = <<>> THEN acc
    ELSE Magnitude(Tail(digits), 10 * acc + DigitValue(Head(digits)))

\* lexical_core::parse::<i64>: an optional sign, then one or more digits and
\* nothing else; a value outside the i64 range is an error.
parse_i64(field) ==
    LET negative == field # <<>> /\ Head(field) = "-"
        signed == field # <<>> /\ Head(field) \in {"-", "+"}
        digits == IF signed THEN Tail(field) ELSE field
        wellFormed == digits # <<>> /\ \A i \in 1..Len(digits) : IsDigit(digits[i])
        value == IF negative THEN -Magnitude(digits, 0) ELSE Magnitude(digits, 0)
    IN  IF wellFormed /\ value >= I64_MIN /\ value <= I64_MAX
        THEN [ok |-> TRUE, value |-> value]
        ELSE [ok |-> FALSE]

\* ---------------------------------------------------------------- filter
Column(name) == [kind |-> "Column", name |-> name]
Number(value) == [kind |-> "Number", value |-> value]

Expression(left, operator, right) ==
    [left |-> left, operator |-> operator, right |-> right]

\* mutant: only the left operand is looked at
check_by_name_left(self, column_name) ==
    self.left.kind = "Column" /\ self.left.name = column_name

check_by_name(self, column_name) ==
    IF self.left.kind = "Column" /\ self.left.name = column_name THEN TRUE
    ELSE IF self.right.kind = "Column" /\ self.right.name = column_name THEN TRUE
    ELSE FALSE

\* mutant: the value is put on the left of a literal on the left
ValidateOperands_swapped(self, value) ==
    IF self.left.kind = "Number" THEN <<value, self.left.value>>
    ELSE IF self.right.kind = "Number" THEN <<value, self.right.value>>
    ELSE <<>>

\* the operand pair the comparison is made on; <<>> when neither operand is
\* a Number (the code panics there)
ValidateOperands(self, value) ==
    IF self.left.kind = "Number" THEN <<self.left.value, value>>
    ELSE IF self.right.kind = "Number" THEN <<value, self.right.value>>
    ELSE <<>>

ApplyOperator(operator, left, right) ==
    CASE operator = "Gt" -> left > right
      [] operator = "Ge" -> left >= right
      [] operator = "Lt" -> left < right
      [] operator = "Le" -> left <= right
      [] operator = "Ne" -> left # right
      [] operator = "Eq" -> left = right

unchacked_validate(self, value) ==
    LET operands == ValidateOperands(self, value)
    IN  ApplyOperator(self.operator, operands[1], operands[2])

\* ------------------------------------------------------------- MedianHeap
\* BinaryHeap::push on the ascending sequence of the heap's elements
RECURSIVE HeapPush(_, _)
HeapPush(heap, value) ==
    IF heap = <<>> THEN <<value>>
    ELSE IF value <= Head(heap) THEN <<value>> \o heap
    ELSE <<Head(heap)>> \o HeapPush(Tail(heap), value)

\* bottom is a max-heap: peek and pop act on the greatest element
BottomPeek(bottom) == bottom[Len(bottom)]
BottomPop(bottom) == SubSeq(bottom, 1, Len(bottom) - 1)
\* top is a min-heap (BinaryHeap<Reverse<i64>>): the least element
TopPeek(top) == Head(top)
TopPop(top) == Tail(top)

MedianHeap_new == [top |-> <<>>, bottom |-> <<>>]

\* mutant: the value is pushed to bottom whatever it is
MedianHeap_insert_bottom(self, value) ==
    [self EXCEPT !.bottom = HeapPush(self.bottom, value)]

MedianHeap_insert(self, value) ==
    IF self.bottom = <<>> \/ BottomPeek(self.bottom) >= value
    THEN [self EXCEPT !.bottom = HeapPush(self.bottom, value)]
    ELSE [self EXCEPT !.top = HeapPush(self.top, value)]

\* mutant: bottom is allowed two elements more than top
MedianHeap_shift_to_top_late(self) ==
    IF Len(self.bottom) > Len(self.top) + 2
    THEN [top |-> HeapPush(self.top, BottomPeek(self.bottom)),
          bottom |-> BottomPop(self.bottom)]
    ELSE self

MedianHeap_shift_to_top(self) ==
    IF Len(self.bottom) > Len(self.top) + 1
    THEN [top |-> HeapPush(self.top, BottomPeek(self.bottom)),
          bottom |-> BottomPop(self.bottom)]
    ELSE self

\* mutant: top is never relieved
MedianHeap_shift_to_bottom_never(self) == self

MedianHeap_shift_to_bottom(self) ==
    IF Len(self.top) > Len(self.bottom) + 1
    THEN [top |-> TopPop(self.top),
          bottom |-> HeapPush(self.bottom, TopPeek(self.top))]
    ELSE self

SwapTaken(self) ==
    /\ self.bottom # <<>>
    /\ self.top # <<>>
    /\ BottomPeek(self.bottom) > TopPeek(self.top)

MedianHeap_swap(self) ==
    IF SwapTaken(self)
    THEN [top |-> HeapPush(TopPop(self.top), BottomPeek(self.bottom)),
          bottom |-> HeapPush(BottomPop(self.bottom), TopPeek(self.top))]
    ELSE self

\* the heaps at the cross-check: after the push and the two size checks
MedianHeap_rebalanced(self, value) ==
    MedianHeap_shift_to_bottom(
        MedianHeap_shift_to_top(
            MedianHeap_insert(self, value)))

\* mutant: every value is pushed to bottom and the cross-check is left out
MedianHeap_add_unchecked(self, value) ==
    MedianHeap_shift_to_bottom(
        MedianHeap_shift_to_top(
            [self EXCEPT !.bottom = HeapPush(self.bottom, value)]))

MedianHeap_add(self, value) ==
    MedianHeap_swap(MedianHeap_rebalanced(self, value))

\* i64 as f64, in halves
AsF64(x) == 2 * x

MedianHeap_median(self) ==
    IF self.bottom = <<>> /\ self.top = <<>> THEN None
    ELSE IF Len(self.top) > Len(self.bottom) THEN Some(AsF64(TopPeek(self.top)))
    ELSE IF Len(self.bottom) > Len(self.top) THEN Some(AsF64(BottomPeek(self.bottom)))
    ELSE Some((AsF64(TopPeek(self.top)) + AsF64(BottomPeek(self.bottom))) \div 2)

\* ----------------------------------------------------------------- Median
MedianSettings_from(config) ==
    IF config.exact_median
    THEN [kind |-> "Exact"]
    ELSE [kind |-> "Approximate", bins |-> config.buckets]

\* The DDSketch is held as the ascending sequence of the values added to it.
Median_new(settings) ==
    IF settings.kind = "Exact"
    THEN [kind |-> "Exact", heaps |-> MedianHeap_new]
    ELSE [kind |-> "Approximate", ddsketch |-> <<>>]

Median_add(self, value) ==
    IF self.kind = "Exact"
    THEN [self EXCEPT !.heaps = MedianHeap_add(self.heaps, value)]
    ELSE [self EXCEPT !.ddsketch = HeapPush(self.ddsketch, value)]

\* DDSketch::quantile(0.5) answers None on an empty sketch, otherwise the
\* value of the bucket holding rank 0.5 * (count - 1); it fails only for a
\* quantile outside [0, 1].
Median_calculate(self) ==
    IF self.kind = "Exact"
    THEN [ok |-> TRUE, value |-> MedianHeap_median(self.heaps)]
    ELSE IF self.ddsketch = <<>>
    THEN [ok |-> TRUE, value |-> None]
    ELSE [ok |-> TRUE,
          value |-> Some(AsF64(self.ddsketch[((Len(self.ddsketch) - 1) \div 2) + 1]))]

\* --------------------------------------------------------------- ColStats
ColStats_new(median_config) ==
    [sum |-> 0, count |-> 0, max |-> None, min |-> None,
     median_approach |-> Median_new(MedianSettings_from(median_config))]

\* mutant: i64::wrapping_add
wrapping_add(a, b) ==
    [panic |-> FALSE,
     value |-> ((a + b - I64_MIN) % (2 ^ I64Bits)) + I64_MIN]

\* i64::strict_add: the sum, or a panic when it leaves the i64 range
strict_add(a, b) ==
    IF a + b > I64_MAX \/ a + b < I64_MIN
    THEN [panic |-> TRUE]
    ELSE [panic |-> FALSE, value |-> a + b]

UpdateMax(max, value) ==
    IF max # None /\ max[1] < value THEN Some(value)
    ELSE IF max = None THEN Some(value)
    ELSE max

\* mutant: the comparison of UpdateMax copied into the minimum
UpdateMin_as_max(min, value) ==
    IF min # None /\ min[1] < value THEN Some(value)
    ELSE IF min = None THEN Some(value)
    ELSE min

UpdateMin(min, value) ==
    IF min # None /\ min[1] > value THEN Some(value)
    ELSE IF min = None THEN Some(value)
    ELSE min

\* ColStats::update: the updated statistics, or a panic from strict_add
\* before anything is stored
ColStats_update(self, value) ==
    LET added == strict_add(self.sum, value)
    IN  IF added.panic
        THEN [panic |-> TRUE, stats |-> self]
        ELSE [panic |-> FALSE,
              stats |-> [sum |-> added.value,
                         count |-> self.count + 1,
                         max |-> UpdateMax(self.max, value),
                         min |-> UpdateMin(self.min, value),
                         median_approach |-> Median_add(self.median_approach, value)]]

\* mutant: the quotient cut at two decimals, as a cast to an integer does
RoundDiv_truncates(n, d) ==
    IF n >= 0 THEN n \div d ELSE -((-n) \div d)

\* f64::round of n / d (d > 0): to nearest, halves away from zero
RoundDiv(n, d) ==
    IF n >= 0 THEN (2 * n + d) \div (2 * d)
    ELSE -((2 * (-n) + d) \div (2 * d))

\* TryInto<Stats> for ColStats
ColStats_try_into(self) ==
    LET median == Median_calculate(self.median_approach)
    IN  IF median.ok
        THEN [ok |-> TRUE,
              stats |-> [max |-> self.max,
                         min |-> self.min,
                         mean |-> IF self.count > 0
                                  THEN Some(RoundDiv(100 * self.sum, self.count))
                                  ELSE None,
                         median |-> median.value]]
        ELSE [ok |-> FALSE, error |-> [kind |-> "DDSketch"]]

\* ----------------------------------------------------------- ColumnOption
Uninitialized == [tag |-> "Uninitialized"]
UninitializedWithFilter(expression) ==
    [tag |-> "UninitializedWithFilter", expression |-> expression]
Ignored == [tag |-> "Ignored"]
NumberColumn(stats) == [tag |-> "Number", stats |-> stats]
FilteredNumber(stats, expression) ==
    [tag |-> "FilteredNumber", stats |-> stats, expression |-> expression]

\* what one call leaves behind: "Ok", "Err" (ColumnParseError) or "Panic",
\* and the column state after it
Outcome(kind, stats) == [outcome |-> kind, stats |-> stats]

\* the update of a column that already holds statistics
UpdateColumn(column, value) ==
    LET updated == ColStats_update(column.stats, value)
    IN  IF updated.panic
        THEN Outcome("Panic", column)
        ELSE Outcome("Ok", [column EXCEPT !.stats = updated.stats])

\* parse_column, value parsed, the column Number
parse_column_number(stats, value) == UpdateColumn(stats, value)

\* mutant: the filter is not consulted
parse_column_filtered_unchecked(stats, value) == UpdateColumn(stats, value)

\* parse_column, value parsed, the column FilteredNumber
parse_column_filtered(stats, value) ==
    IF ValidateOperands(stats.expression, value) = <<>>
    THEN Outcome("Panic", stats)
    ELSE IF unchacked_validate(stats.expression, value)
    THEN UpdateColumn(stats, value)
    ELSE Outcome("Ok", stats)

\* mutant: the promoting value is not counted
parse_column_uninitialized_unfed(median_config, value) ==
    Outcome("Ok", NumberColumn(ColStats_new(median_config)))

\* parse_column, value parsed, the column Uninitialized
parse_column_uninitialized(median_config, value) ==
    UpdateColumn(NumberColumn(ColStats_new(median_config)), value)

\* mutant: a value that fails the filter does not promote the column
parse_column_with_filter_waits(stats, median_config, value) ==
    IF ValidateOperands(stats.expression, value) = <<>>
    THEN Outcome("Panic", stats)
    ELSE IF unchacked_validate(stats.expression, value)
    THEN UpdateColumn(FilteredNumber(ColStats_new(median_config), stats.expression),
                      value)
    ELSE Outcome("Ok", stats)

\* parse_column, value parsed, the column UninitializedWithFilter
parse_column_with_filter(stats, median_config, value) ==
    IF ValidateOperands(stats.expression, value) = <<>>
    THEN Outcome("Panic", stats)
    ELSE IF unchacked_validate(stats.expression, value)
    THEN UpdateColumn(FilteredNumber(ColStats_new(median_config), stats.expression),
                      value)
    ELSE Outcome("Ok", FilteredNumber(ColStats_new(median_config), stats.expression))

\* parse_column, the field parsed as value
parse_column_ok(value, median_config, stats) ==
    CASE stats.tag = "Number" -> parse_column_number(stats, value)
      [] stats.tag = "FilteredNumber" -> parse_column_filtered(stats, value)
      [] stats.tag = "Uninitialized" -> parse_column_uninitialized(median_config, value)
      [] stats.tag = "UninitializedWithFilter" ->
            parse_column_with_filter(stats, median_config, value)
      [] stats.tag = "Ignored" -> Outcome("Ok", stats)

\* mutant: a field that is not an integer demotes a numeric column too
parse_column_err_demotes(stats) == Outcome("Ok", Ignored)

\* mutant: a field that is not an integer is skipped in a numeric column
parse_column_err_skips(stats) ==
    IF stats.tag \in {"Number", "FilteredNumber"}
    THEN Outcome("Ok", stats)
    ELSE Outcome("Ok", Ignored)

\* mutant: a field that is not an integer leaves an uninitialized column as
\* it was
parse_column_err_keeps(stats) ==
    IF stats.tag \in {"Number", "FilteredNumber"}
    THEN Outcome("Err", stats)
    ELSE Outcome("Ok", stats)

\* parse_column, the field not an integer
parse_column_err(stats) ==
    IF stats.tag \in {"Number", "FilteredNumber"}
    THEN Outcome("Err", stats)
    ELSE Outcome("Ok", Ignored)

parse_column(field, median_config, stats) ==
    LET parsed == parse_i64(field)
    IN  IF parsed.ok
        THEN parse_column_ok(parsed.value, median_config, stats)
        ELSE parse_column_err(stats)

\* ------------------------------------------------------------- the inputs
\* the header row of the file
Headers == <<"id", "value">>

\* the fields a record may hold: an empty field, a sentinel padded with
\* whitespace, text, and integers with and without padding
Fields ==
    { <<>>,
      <<" ", "n", "u", "l", "l">>,
      <<"x">>,
      <<"-", "3">>,
      <<" ", "2", "0", " ">> }

IgnoreLists == { <<>>, <<"id">>, <<"value">> }

Filters ==
    { None,
      Some(Expression(Column("value"), "Gt", Number(10))),
      Some(Expression(Number(0), "Ge", Column("value"))) }

\* the declared size of the file, on both sides of the budget
FileSizes == { MemoryBudget, MemoryBudget + 1 }

\* Config::from(&args), with main's budget_per_file
Configs ==
    { [data_config |-> [filter |-> f, ignore_columns |-> ig],
       median_config |-> [memory_budget |-> MemoryBudget,
                          buckets |-> None,
                          exact_median |-> TRUE]] :
        f \in Filters, ig \in IgnoreLists }

Ok(value) == [ok |-> TRUE, value |-> value]
Err(error) == [ok |-> FALSE, error |-> error]

Io == [kind |-> "Io"]
CsvParse == [kind |-> "CsvParse"]
ColumnParse(row, field) == [kind |-> "ColumnParse", row |-> row, field |-> field]
ThreadPanic == [kind |-> "ThreadPanic"]

\* ------------------------------------------------------------------ state
VARIABLES
    pc,            \* where the worker running parse_file is
    config,        \* the worker's own Config
    file_size,     \* the declared size of the file
    column_stats,  \* parse_reader's Vec<ColumnOption>
    row_index,     \* index of the current data row
    field_index,   \* index of the current field in the row
    seen,          \* history: per column, the fields read so far
    ret,           \* what parse_file returned
    result,        \* main's result vector
    heap,          \* a stand-alone MedianHeap
    added,         \* history: the values added to heap, in order
    colstats,      \* a stand-alone ColStats
    fed,           \* history: the values colstats was updated with, in order
    statpc,        \* "update", "panicked" (strict_add) or "done" (converted)
    into_stats,    \* what try_into made of colstats
    printed,       \* the column names main printed for the file, in order
    args,          \* main's CsvColStatsArgs: files and memory_budget
    mpc,           \* where main is
    main_config,   \* main's Config, holding budget_per_file
    handlers,      \* main's handlers: one worker per spawned thread
    main_result,   \* main's result vector over all the files
    reported,      \* history: what main printed, one entry per reported file
    finished,      \* history: the workers in the order they finished
    source,        \* the text of a filter
    parsed,        \* what Expression::from_str returned for source
    evaluated,     \* the last evaluation of the parsed expression
    fin_columns,   \* the columns parse_reader handed to the finalization
    fin_fails,     \* per column, whether its sketch fails the quantile query
    fin_ret        \* what the finalization returned

vars == <<pc, config, file_size, column_stats, row_index, field_index, seen,
          ret, result, heap, added, colstats, fed, statpc, into_stats,
          printed, args, mpc, main_config, handlers, main_result, reported,
          finished, source, parsed, evaluated, fin_columns, fin_fails, fin_ret>>

fileVars == <<pc, config, file_size, column_stats, row_index, field_index,
              seen, ret, result, printed>>
heapVars == <<heap, added>>
statVars == <<colstats, fed, statpc, into_stats>>
mainVars == <<args, mpc, main_config, handlers, main_result, reported,
              finished>>
filterVars == <<source, parsed, evaluated>>
finVars == <<fin_columns, fin_fails, fin_ret>>

\* Config::default()
DefaultConfig ==
    [data_config |-> [filter |-> None, ignore_columns |-> <<>>],
     median_config |-> [memory_budget |-> MemoryBudget,
                        buckets |-> None,
                        exact_median |-> TRUE]]

\* the variables of one component before it is used
FileIdle ==
    /\ pc = "parse_file"
    /\ config = DefaultConfig
    /\ file_size = MemoryBudget
    /\ column_stats = <<>>
    /\ row_index = 0
    /\ field_index = 0
    /\ seen = [c \in 1..Len(Headers) |-> <<>>]
    /\ ret = None
    /\ result = <<>>
    /\ printed = None

HeapIdle ==
    /\ heap = MedianHeap_new
    /\ added = <<>>

StatIdle ==
    /\ colstats = ColStats_new(DefaultConfig.median_config)
    /\ fed = <<>>
    /\ statpc = "update"
    /\ into_stats = None

\* CsvColStatsArgs with the default filter and ignore list
Args(files, memory_budget) ==
    [files |-> files,
     memory_budget |-> memory_budget,
     filter |-> None,
     ignore_columns |-> <<"id">>]

MainIdle ==
    /\ args = Args(<<>>, MemoryBudget)
    /\ mpc = "main"
    /\ main_config = DefaultConfig
    /\ handlers = <<>>
    /\ main_result = <<>>
    /\ reported = <<>>
    /\ finished = <<>>

FilterIdle ==
    /\ source = <<>>
    /\ parsed = None
    /\ evaluated = None

FinIdle ==
    /\ fin_columns = <<>>
    /\ fin_fails = <<>>
    /\ fin_ret = None

Init ==
    /\ pc = "parse_file"
    /\ config \in Configs
    /\ file_size \in FileSizes
    /\ column_stats = <<>>
    /\ row_index = 0
    /\ field_index = 0
    /\ seen = [c \in 1..Len(Headers) |-> <<>>]
    /\ ret = None
    /\ result = <<>>
    /\ printed = None
    /\ HeapIdle
    /\ StatIdle
    /\ MainIdle
    /\ FilterIdle
    /\ FinIdle

\* ------------------------------------------------------------- parse_file
\* File::open, metadata().size() and the choice of the median strategy
OpenFile ==
    /\ pc = "parse_file"
    /\ \E opened \in BOOLEAN :
        IF opened
        THEN /\ config' = [config EXCEPT !.median_config.exact_median =
                              config.median_config.memory_budget >= file_size]
             /\ pc' = "headers"
             /\ ret' = ret
        ELSE /\ ret' = Some(Err(Io))
             /\ pc' = "returned"
             /\ config' = config
    /\ UNCHANGED <<file_size, column_stats, row_index, field_index, seen, result>>
    /\ UNCHANGED <<printed, heapVars, statVars, mainVars, filterVars, finVars>>

\* mutant: the filter is looked at before the ignore list
InitialColumn_filter_first(data_config, header) ==
    IF data_config.filter # None /\ check_by_name(data_config.filter[1], header)
    THEN UninitializedWithFilter(data_config.filter[1])
    ELSE IF \E i \in 1..Len(data_config.ignore_columns) :
                data_config.ignore_columns[i] = header
    THEN Ignored
    ELSE Uninitialized

\* the initial state of the column under one header
InitialColumn(data_config, header) ==
    IF \E i \in 1..Len(data_config.ignore_columns) :
           data_config.ignore_columns[i] = header
    THEN Ignored
    ELSE IF data_config.filter # None /\ check_by_name(data_config.filter[1], header)
    THEN UninitializedWithFilter(data_config.filter[1])
    ELSE Uninitialized

\* parse_reader: the header row and one ColumnOption per header
ReadHeaders ==
    /\ pc = "headers"
    /\ \E read \in BOOLEAN :
        IF read
        THEN /\ column_stats' = [c \in 1..Len(Headers) |->
                                    InitialColumn(config.data_config, Headers[c])]
             /\ pc' = "rows"
             /\ ret' = ret
        ELSE /\ ret' = Some(Err(CsvParse))
             /\ pc' = "returned"
             /\ column_stats' = column_stats
    /\ UNCHANGED <<config, file_size, row_index, field_index, seen, result>>
    /\ UNCHANGED <<printed, heapVars, statVars, mainVars, filterVars, finVars>>

\* parse_reader: the next item of byte_records(): a record, a malformed
\* record, or the end of the stream
ReadRow ==
    /\ pc = "rows"
    /\ \E next \in {"record", "error", "end"} :
        CASE next = "record" ->
                /\ row_index < MaxRows
                /\ pc' = "fields"
                /\ ret' = ret
          [] next = "error" ->
                /\ ret' = Some(Err(CsvParse))
                /\ pc' = "returned"
          [] next = "end" ->
                /\ pc' = "collect"
                /\ ret' = ret
    /\ UNCHANGED <<config, file_size, column_stats, row_index, field_index, seen,
                   result>>
    /\ UNCHANGED <<printed, heapVars, statVars, mainVars, filterVars, finVars>>

\* parse_reader: what the loop body does with one field of the current row
FieldStep(field, column, median_config) ==
    IF column.tag = "Ignored" THEN Outcome("Ok", column)
    ELSE IF is_empty(field) THEN Outcome("Ok", column)
    ELSE parse_column(trim_bytes(field), median_config, column)

\* parse_reader: one field of the current row
ProcessField ==
    /\ pc = "fields"
    /\ \E field \in Fields :
        LET c == field_index + 1
            step == FieldStep(field, column_stats[c], config.median_config)
            lastField == c = Len(Headers)
        IN  /\ seen' = [seen EXCEPT ![c] = Append(@, field)]
            /\ column_stats' = [column_stats EXCEPT ![c] = step.stats]
            /\ IF step.outcome = "Ok"
               THEN /\ pc' = IF lastField THEN "rows" ELSE "fields"
                    /\ field_index' = IF lastField THEN 0 ELSE field_index + 1
                    /\ row_index' = IF lastField THEN row_index + 1 ELSE row_index
                    /\ ret' = ret
               ELSE IF step.outcome = "Err"
               THEN /\ pc' = "returned"
                    /\ ret' = Some(Err(ColumnParse(row_index, field_index)))
                    /\ UNCHANGED <<row_index, field_index>>
               ELSE /\ pc' = "panicked"
                    /\ UNCHANGED <<row_index, field_index, ret>>
    /\ UNCHANGED <<config, file_size, result>>
    /\ UNCHANGED <<printed, heapVars, statVars, mainVars, filterVars, finVars>>

\* the columns parse_file converts to Stats, in header order
NumericColumns(columns) ==
    SelectSeq([c \in 1..Len(columns) |-> c],
              LAMBDA c : columns[c].tag \in {"Number", "FilteredNumber"})

\* mutant: a column whose conversion failed is left out of the Output
Collected_swallows(headers, numeric, converted) ==
    LET kept == SelectSeq([i \in 1..Len(numeric) |-> i],
                          LAMBDA i : converted[i].ok)
    IN  Ok([name \in {headers[numeric[kept[k]]] : k \in 1..Len(kept)} |->
               LET last == CHOOSE k \in 1..Len(kept) :
                               /\ headers[numeric[kept[k]]] = name
                               /\ \A j \in 1..Len(kept) :
                                      headers[numeric[kept[j]]] = name => j <= k
               IN  converted[kept[last]].stats])

\* parse_file: collect::<Result<Vec<_>>>()? on the conversions of the
\* numeric columns, then the collect into the Output
Collected(headers, numeric, converted) ==
    LET failed == {i \in 1..Len(numeric) : ~converted[i].ok}
    IN  IF failed # {}
        THEN Err(converted[CHOOSE i \in failed : \A j \in failed : i <= j].error)
        ELSE Ok([name \in {headers[numeric[i]] : i \in 1..Len(numeric)} |->
                    LET last == CHOOSE i \in 1..Len(numeric) :
                                    /\ headers[numeric[i]] = name
                                    /\ \A j \in 1..Len(numeric) :
                                           headers[numeric[j]] = name => j <= i
                    IN  converted[last].stats])

\* parse_file: the finalization of parse_reader's columns
Finalize(headers, columns) ==
    LET numeric == NumericColumns(columns)
    IN  Collected(headers, numeric,
                  [i \in 1..Len(numeric) |->
                      ColStats_try_into(columns[numeric[i]].stats)])

Collect ==
    /\ pc = "collect"
    /\ ret' = Some(Finalize(Headers, column_stats))
    /\ pc' = "returned"
    /\ UNCHANGED <<config, file_size, column_stats, row_index, field_index, seen,
                   result>>
    /\ UNCHANGED <<printed, heapVars, statVars, mainVars, filterVars, finVars>>

\* main: handler.join() and the push of the worker's outcome
Join ==
    /\ pc \in {"returned", "panicked"}
    /\ result' = Append(result, IF pc = "returned" THEN ret[1] ELSE Err(ThreadPanic))
    /\ pc' = "joined"
    /\ UNCHANGED <<config, file_size, column_stats, row_index, field_index, seen,
                   ret>>
    /\ UNCHANGED <<printed, heapVars, statVars, mainVars, filterVars, finVars>>

\* the orders in which iterating a HashMap with these keys may yield them:
\* the order is unspecified, so every arrangement of the keys is one
HashMapIter(keys) ==
    {order \in [1..Cardinality(keys) -> keys] :
        \A i, j \in 1..Cardinality(keys) : order[i] = order[j] => i = j}

\* the header names in the order of str::cmp
NamesByCmp == <<"id", "value">>

\* rows.sort_by(|a, b| a.column_name.cmp(&b.column_name))
sort_by_column_name(rows) ==
    SelectSeq(NamesByCmp,
              LAMBDA name : \E i \in 1..Len(rows) : rows[i] = name)

\* main: the report of the file's result; unwrap panics on an Err, and the
\* columns are printed in the map's iteration order, sorted in table mode
PrintOutput ==
    /\ pc = "joined"
    /\ LET output == result[1]
       IN  IF ~output.ok
           THEN /\ pc' = "main_panicked"
                /\ printed' = printed
           ELSE /\ pc' = "reported"
                /\ \E mode \in {"json", "table", "debug"} :
                   \E rows \in HashMapIter(DOMAIN output.value) :
                       printed' = Some(IF mode = "table"
                                       THEN sort_by_column_name(rows)
                                       ELSE rows)
    /\ UNCHANGED <<config, file_size, column_stats, row_index, field_index, seen,
                   ret, result>>
    /\ UNCHANGED <<heapVars, statVars, mainVars, filterVars, finVars>>

Next ==
    \/ OpenFile
    \/ ReadHeaders
    \/ ReadRow
    \/ ProcessField
    \/ Collect
    \/ Join
    \/ PrintOutput

Spec == Init /\ [][Next]_vars

\* --------------------------------------------- the stand-alone MedianHeap
HeapValues == 0..MaxHeapValue

Add ==
    /\ Len(added) < MaxAdds
    /\ \E value \in HeapValues :
        /\ heap' = MedianHeap_add(heap, value)
        /\ added' = Append(added, value)
    /\ UNCHANGED <<fileVars, statVars, mainVars, filterVars, finVars>>

InitHeap ==
    /\ FileIdle
    /\ HeapIdle
    /\ StatIdle
    /\ MainIdle
    /\ FilterIdle
    /\ FinIdle

NextHeap == Add

SpecHeap == InitHeap /\ [][NextHeap]_vars

\* ----------------------------------------------- the stand-alone ColStats
StatValues == {-2, 0, 1, 3}

\* ColStats::update with one more value
Update ==
    /\ statpc = "update"
    /\ Len(fed) < MaxFed
    /\ \E value \in StatValues :
        LET updated == ColStats_update(colstats, value)
        IN  /\ fed' = Append(fed, value)
            /\ colstats' = updated.stats
            /\ statpc' = IF updated.panic THEN "panicked" ELSE "update"
    /\ UNCHANGED into_stats
    /\ UNCHANGED <<fileVars, heapVars, mainVars, filterVars, finVars>>

\* the conversion of the ColStats to Stats
TryInto ==
    /\ statpc = "update"
    /\ into_stats' = Some(ColStats_try_into(colstats))
    /\ statpc' = "done"
    /\ UNCHANGED <<colstats, fed>>
    /\ UNCHANGED <<fileVars, heapVars, mainVars, filterVars, finVars>>

InitStats ==
    /\ FileIdle
    /\ HeapIdle
    /\ StatIdle
    /\ MainIdle
    /\ FilterIdle
    /\ FinIdle

NextStats ==
    \/ Update
    \/ TryInto

SpecStats == InitStats /\ [][NextStats]_vars

\* ------------------------------------------------------------------- main
\* the files main may be given, and the size metadata() declares for each
\* fifo is a named pipe nothing is ever written to: it opens, declares no
\* size, and a read from it never returns
Paths == {"a.csv", "b.csv", "c.csv", "fifo"}

SizeOf(path) ==
    CASE path = "a.csv" -> MemoryBudget \div 2
      [] path = "b.csv" -> MemoryBudget \div 2 + 1
      [] path = "c.csv" -> MemoryBudget + 2
      [] path = "fifo" -> 0

\* the integers of the records of each file, in order
Contents(path) ==
    CASE path = "a.csv" -> <<1>>
      [] path = "b.csv" -> <<2, 3>>
      [] path = "c.csv" -> <<4>>
      [] path = "fifo" -> <<>>

\* the next read of the file never returns
Blocks(path) == path = "fifo"

FileLists == UNION {[1..n -> Paths] : n \in 0..MaxFiles}

MemoryBudgets == {MemoryBudget, MemoryBudget + 1}

\* Config::from(&args)
Config_from(a) ==
    [data_config |-> [filter |-> a.filter, ignore_columns |-> a.ignore_columns],
     median_config |-> [memory_budget |-> a.memory_budget,
                        buckets |-> None,
                        exact_median |-> TRUE]]

\* mutant: every file is given the whole budget
budget_per_file_whole(memory_budget, files_len) == memory_budget

\* args.memory_budget / args.files.len() on usize
budget_per_file(memory_budget, files_len) == memory_budget \div files_len

\* main up to the spawn loop: the panic on an empty file list, the budget of
\* one file and the Config every worker is given a clone of
Start ==
    /\ mpc = "main"
    /\ IF args.files = <<>>
       THEN /\ mpc' = "panicked"
            /\ main_config' = main_config
       ELSE /\ main_config' =
                   [Config_from(args) EXCEPT !.median_config.memory_budget =
                       budget_per_file(args.memory_budget, Len(args.files))]
            /\ mpc' = "spawn"
    /\ UNCHANGED <<args, handlers, main_result, reported, finished>>
    /\ UNCHANGED <<fileVars, heapVars, statVars, filterVars, finVars>>

\* one turn of the spawn loop: a thread for the next file
Spawn ==
    /\ mpc = "spawn"
    /\ LET k == Len(handlers) + 1
       IN  /\ handlers' = Append(handlers, [file |-> args.files[k],
                                            config |-> main_config,
                                            state |-> "running",
                                            pc |-> "open",
                                            row_index |-> 0,
                                            column_stats |-> <<>>,
                                            ret |-> None,
                                            joined |-> FALSE])
           /\ mpc' = IF k = Len(args.files) THEN "join" ELSE "spawn"
    /\ UNCHANGED <<args, main_config, main_result, reported, finished>>
    /\ UNCHANGED <<fileVars, heapVars, statVars, filterVars, finVars>>

\* the Output of a file parsed to its end, by the file it was computed from,
\* the median strategy it was computed with and the values of its columns
OutputOf(file, exact_median, columns) ==
    [file |-> file, exact_median |-> exact_median, values |-> columns]

\* the ways the next record of a file may be taken
RecordOutcomes == {"csv", "column", "ok", "panic"}

\* worker i has ended, by a return or by a panic
Ended(i, state, returned) ==
    /\ handlers' = [handlers EXCEPT ![i] = [@ EXCEPT !.state = state,
                                                     !.ret = returned,
                                                     !.column_stats = <<>>]]
    /\ finished' = Append(finished, i)

\* parse_file in the thread of handler i: File::open, the declared size and
\* the choice of the median strategy, written to the worker's own Config
parse_file_open(i) ==
    /\ handlers[i].state = "running"
    /\ handlers[i].pc = "open"
    /\ \E opened \in BOOLEAN :
        IF opened
        THEN /\ handlers' = [handlers EXCEPT ![i] =
                    [@ EXCEPT !.config.median_config.exact_median =
                                  handlers[i].config.median_config.memory_budget
                                      >= SizeOf(handlers[i].file),
                              !.pc = "rows"]]
             /\ finished' = finished
        ELSE Ended(i, "returned", Some(Err(Io)))
    /\ UNCHANGED <<args, mpc, main_config, main_result, reported>>
    /\ UNCHANGED <<fileVars, heapVars, statVars, filterVars, finVars>>

\* mutant: every worker writes to the column vector of the first one
UpdateColumns_shared(hs, i, value) ==
    [hs EXCEPT ![1].column_stats = Append(@, value), ![i].row_index = @ + 1]

\* the worker's own column vector takes the value of its next record
UpdateColumns(hs, i, value) ==
    [hs EXCEPT ![i].column_stats = Append(@, value), ![i].row_index = @ + 1]

\* parse_file in the thread of handler i: the next record of the file, as
\* Spec details it, or the end of the file and the return of the Output
parse_file_read(i) ==
    /\ handlers[i].state = "running"
    /\ handlers[i].pc = "rows"
    /\ ~Blocks(handlers[i].file)
    /\ LET own == handlers[i]
           records == Contents(own.file)
       IN  IF own.row_index = Len(records)
           THEN Ended(i, "returned",
                      Some(Ok(OutputOf(own.file,
                                       own.config.median_config.exact_median,
                                       own.column_stats))))
           ELSE \E outcome \in RecordOutcomes :
                   CASE outcome = "ok" ->
                           /\ handlers' = UpdateColumns(handlers, i,
                                                        records[own.row_index + 1])
                           /\ finished' = finished
                     [] outcome = "csv" ->
                           Ended(i, "returned", Some(Err(CsvParse)))
                     [] outcome = "column" ->
                           Ended(i, "returned",
                                 Some(Err(ColumnParse(own.row_index, 0))))
                     [] outcome = "panic" ->
                           Ended(i, "panicked", None)
    /\ UNCHANGED <<args, mpc, main_config, main_result, reported>>
    /\ UNCHANGED <<fileVars, heapVars, statVars, filterVars, finVars>>

parse_file(i) ==
    \/ parse_file_open(i)
    \/ parse_file_read(i)

\* the workers run on their own threads, in any order
Worker == \E i \in DOMAIN handlers : parse_file(i)

\* mutant: the handler of a finished worker is joined first
NextHandler_finished(hs) ==
    LET waiting == {k \in DOMAIN hs : ~hs[k].joined}
        over == {k \in waiting : hs[k].state # "running"}
        from == IF over # {} THEN over ELSE waiting
    IN  CHOOSE k \in from : \A j \in from : j <= k

\* for handler in handlers: the handlers are taken in the order of the Vec
NextHandler(hs) ==
    CHOOSE k \in DOMAIN hs : ~hs[k].joined /\ \A j \in 1..(k - 1) : hs[j].joined

\* one turn of the join loop: join() blocks until the thread has ended
JoinHandler ==
    /\ mpc = "join"
    /\ LET k == NextHandler(handlers)
       IN  /\ handlers[k].state # "running"
           /\ main_result' = Append(main_result,
                                    IF handlers[k].state = "returned"
                                    THEN handlers[k].ret[1]
                                    ELSE Err(ThreadPanic))
           /\ handlers' = [handlers EXCEPT ![k].joined = TRUE]
    /\ mpc' = IF Len(main_result') = Len(handlers) THEN "report" ELSE "join"
    /\ UNCHANGED <<args, main_config, reported, finished>>
    /\ UNCHANGED <<fileVars, heapVars, statVars, filterVars, finVars>>

\* one turn of the report loop: unwrap panics on an Err, otherwise the file
\* name and the output are printed
Report ==
    /\ mpc = "report"
    /\ LET index == Len(reported)
           output == main_result[index + 1]
       IN  IF ~output.ok
           THEN /\ mpc' = "panicked"
                /\ reported' = reported
           ELSE /\ reported' = Append(reported, [file |-> args.files[index + 1],
                                                 output |-> output.value])
                /\ mpc' = IF index + 1 = Len(main_result) THEN "done" ELSE "report"
    /\ UNCHANGED <<args, main_config, handlers, main_result, finished>>
    /\ UNCHANGED <<fileVars, heapVars, statVars, filterVars, finVars>>

InitMain ==
    /\ FileIdle
    /\ HeapIdle
    /\ StatIdle
    /\ FilterIdle
    /\ FinIdle
    /\ \E files \in FileLists, memory_budget \in MemoryBudgets :
           args = Args(files, memory_budget)
    /\ mpc = "main"
    /\ main_config = DefaultConfig
    /\ handlers = <<>>
    /\ main_result = <<>>
    /\ reported = <<>>
    /\ finished = <<>>

NextMain ==
    \/ Start
    \/ Spawn
    \/ Worker
    \/ JoinHandler
    \/ Report

SpecMain == InitMain /\ [][NextMain]_vars

\* the thread of handler i
Thread(i) == i \in DOMAIN handlers /\ parse_file(i)

\* the scheduler gives every thread that can take a step its turn: the main
\* thread in each of its loops, and each worker
SpecMainFair ==
    /\ SpecMain
    /\ WF_vars(Start)
    /\ WF_vars(Spawn)
    /\ WF_vars(JoinHandler)
    /\ WF_vars(Report)
    /\ \A i \in 1..MaxFiles : WF_vars(Thread(i))

\* ---------------------------------------------------- Expression::from_str
Filter == [kind |-> "Filter"]

\* str::split(' '): the pieces between the spaces, empty pieces included
RECURSIVE split(_)
split(value) ==
    IF \A i \in 1..Len(value) : value[i] # " "
    THEN <<value>>
    ELSE LET at == CHOOSE i \in 1..Len(value) :
                       value[i] = " " /\ \A j \in 1..(i - 1) : value[j] # " "
         IN  <<SubSeq(value, 1, at - 1)>> \o split(SubSeq(value, at + 1, Len(value)))

\* str::trim; of the characters of the sources below, its white space is
\* the ASCII white space
str_trim(value) == TrimEnd(TrimStart(value))

\* str::parse::<i64>: an optional sign, then one or more digits and nothing
\* else; a value outside the i64 range is an error
str_parse_i64(value) == parse_i64(value)

\* mutant: a single = is taken for ==
Operator_try_parse_single(value) ==
    LET trimmed == str_trim(value)
    IN  CASE trimmed = <<">", "=">> -> Ok("Ge")
          [] trimmed = <<"<", "=">> -> Ok("Le")
          [] trimmed = <<"=", "=">> -> Ok("Eq")
          [] trimmed = <<"=">> -> Ok("Eq")
          [] trimmed = <<"!", "=">> -> Ok("Ne")
          [] trimmed = <<"<">> -> Ok("Lt")
          [] trimmed = <<">">> -> Ok("Gt")
          [] OTHER -> Err(Filter)

Operator_try_parse(value) ==
    LET trimmed == str_trim(value)
    IN  CASE trimmed = <<">", "=">> -> Ok("Ge")
          [] trimmed = <<"<", "=">> -> Ok("Le")
          [] trimmed = <<"=", "=">> -> Ok("Eq")
          [] trimmed = <<"!", "=">> -> Ok("Ne")
          [] trimmed = <<"<">> -> Ok("Lt")
          [] trimmed = <<">">> -> Ok("Gt")
          [] OTHER -> Err(Filter)

from_str(value) ==
    LET items == split(value)
    IN  IF Len(items) # 3 THEN Err(Filter)
        ELSE LET operator == Operator_try_parse(items[2])
                 first == str_parse_i64(items[1])
                 third == str_parse_i64(items[3])
             IN  IF ~operator.ok THEN operator
                 ELSE IF first.ok
                 THEN Ok(Expression(Number(first.value), operator.value,
                                    Column(items[3])))
                 ELSE IF third.ok
                 THEN Ok(Expression(Column(items[1]), operator.value,
                                    Number(third.value)))
                 ELSE Err(Filter)

\* the operands and operators a filter text is put together from: integers,
\* a column name, an integer outside the i64 range, the six operators, a
\* single = and an operator behind a tab
OperandTokens == { <<"5">>, <<"-", "3">>, <<"v">>, <<"9", "9">> }

OperatorTokens ==
    { <<">">>, <<">", "=">>, <<"<">>, <<"<", "=">>, <<"=", "=">>, <<"!", "=">>,
      <<"=">>, <<"\t", ">">> }

\* the filter texts: three tokens a space apart, and texts of fewer and of
\* more pieces
FilterSources ==
    { l \o <<" ">> \o o \o <<" ">> \o r :
          l \in OperandTokens, o \in OperatorTokens, r \in OperandTokens }
    \cup { <<>>,
           <<"v">>,
           <<"5", " ", ">">>,
           <<"5", " ", " ", ">", " ", "v">>,
           <<"5", " ", ">", " ", "v", " ">> }

\* the values a parsed filter is asked about
EvalValues == {-4, -3, -2, 4, 5, 6}

\* the parse of the filter text
FromStr ==
    /\ parsed = None
    /\ parsed' = Some(from_str(source))
    /\ UNCHANGED <<source, evaluated>>
    /\ UNCHANGED <<fileVars, heapVars, statVars, mainVars, finVars>>

\* unchacked_validate on the parsed expression; it panics on an expression
\* without a Number operand
Evaluate ==
    /\ parsed # None
    /\ parsed[1].ok
    /\ \E value \in EvalValues :
        LET self == parsed[1].value
            panics == ValidateOperands(self, value) = <<>>
        IN  evaluated' = Some([value |-> value,
                               panic |-> panics,
                               result |-> IF panics THEN FALSE
                                          ELSE unchacked_validate(self, value)])
    /\ UNCHANGED <<source, parsed>>
    /\ UNCHANGED <<fileVars, heapVars, statVars, mainVars, finVars>>

InitFilter ==
    /\ FileIdle
    /\ HeapIdle
    /\ StatIdle
    /\ MainIdle
    /\ FinIdle
    /\ source \in FilterSources
    /\ parsed = None
    /\ evaluated = None

NextFilter ==
    \/ FromStr
    \/ Evaluate

SpecFilter == InitFilter /\ [][NextFilter]_vars

\* ------------------------------------------- the finalization of parse_file
\* a ColStats that was updated with the values, in order
RECURSIVE ColStats_of(_, _)
ColStats_of(median_config, values) ==
    IF values = <<>> THEN ColStats_new(median_config)
    ELSE ColStats_update(ColStats_of(median_config,
                                     SubSeq(values, 1, Len(values) - 1)),
                         values[Len(values)]).stats

ApproximateConfig == [DefaultConfig.median_config EXCEPT !.exact_median = FALSE]

\* the columns parse_reader may hand over: not numeric, numeric with the
\* exact median, numeric with a sketch, and filtered with an empty sketch
FinalColumns ==
    { Uninitialized,
      Ignored,
      NumberColumn(ColStats_of(DefaultConfig.median_config, <<3>>)),
      NumberColumn(ColStats_of(ApproximateConfig, <<1>>)),
      NumberColumn(ColStats_of(ApproximateConfig, <<1, 2>>)),
      FilteredNumber(ColStats_of(ApproximateConfig, <<>>),
                     Expression(Column("value"), "Gt", Number(10))) }

\* the column holds a sketch, the one median engine whose query is fallible
HoldsSketch(column) ==
    /\ column.tag \in {"Number", "FilteredNumber"}
    /\ column.stats.median_approach.kind = "Approximate"

\* col.try_into() where the quantile query of the sketch may have failed
Conversion(column, fails) ==
    IF fails
    THEN [ok |-> FALSE, error |-> [kind |-> "DDSketch"]]
    ELSE ColStats_try_into(column.stats)

\* parse_file from the return of parse_reader to its own return
Finalization ==
    /\ fin_ret = None
    /\ LET numeric == NumericColumns(fin_columns)
       IN  fin_ret' = Some(Collected(Headers, numeric,
                                     [i \in 1..Len(numeric) |->
                                         Conversion(fin_columns[numeric[i]],
                                                    fin_fails[numeric[i]])]))
    /\ UNCHANGED <<fin_columns, fin_fails>>
    /\ UNCHANGED <<fileVars, heapVars, statVars, mainVars, filterVars>>

InitFinalize ==
    /\ FileIdle
    /\ HeapIdle
    /\ StatIdle
    /\ MainIdle
    /\ FilterIdle
    /\ fin_columns \in [1..Len(Headers) -> FinalColumns]
    /\ fin_fails \in [1..Len(Headers) -> BOOLEAN]
    /\ \A c \in 1..Len(Headers) : fin_fails[c] => HoldsSketch(fin_columns[c])
    /\ fin_ret = None

NextFinalize == Finalization

SpecFinalize == InitFinalize /\ [][NextFinalize]_vars

\* ----------------------------------------------------------- the claims
Columns == DOMAIN column_stats

IsNumeric(column) == column.tag \in {"Number", "FilteredNumber"}

\* a missing value as the specification defines it: a sentinel token once
\* the ASCII whitespace around it is trimmed
SentinelFields == {field \in Fields : is_empty(trim_bytes(field))}
IsSentinel(field) == field \in SentinelFields

\* the field, trimmed, is an integer, and the integer it is
ParsedFields == [field \in Fields |-> parse_i64(trim_bytes(field))]
Parses(field) == ParsedFields[field].ok
ValueOf(field) == ParsedFields[field].value

\* the step reads one field into column c
ReadsField(c) == pc = "fields" /\ c = field_index + 1 /\ seen'[c] # seen[c]
FieldRead(c) == seen'[c][Len(seen'[c])]

InIgnoreList(header) ==
    \E i \in 1..Len(config.data_config.ignore_columns) :
        config.data_config.ignore_columns[i] = header

\* C1: once a column is Number it stays Number, and once it is FilteredNumber
\* it stays FilteredNumber, whatever field comes next.
C1_NumericNeverReverts ==
    [][\A c \in Columns :
          /\ column_stats[c].tag = "Number" => column_stats'[c].tag = "Number"
          /\ column_stats[c].tag = "FilteredNumber" =>
                 column_stats'[c].tag = "FilteredNumber"]_vars

\* a Number column that read a sentinel after its first integer, next to a
\* FilteredNumber column that read text after its first integer
C1_Witness ==
    /\ pc = "returned"
    /\ Len(seen[1]) = 2 /\ Len(seen[2]) = 2
    /\ column_stats[1].tag = "Number"
    /\ Parses(seen[1][1]) /\ IsSentinel(seen[1][2])
    /\ column_stats[2].tag = "FilteredNumber"
    /\ Parses(seen[2][1]) /\ ~IsSentinel(seen[2][2]) /\ ~Parses(seen[2][2])

\* C2: a field that is a sentinel token once trimmed is skipped in every
\* column state: the column is left as it was and no error is returned.
C2_SentinelSkipped ==
    [][\A c \in Columns :
          (ReadsField(c) /\ IsSentinel(FieldRead(c))) =>
              /\ column_stats'[c] = column_stats[c]
              /\ pc' \in {"fields", "rows"}
              /\ ret' = None]_vars

\* C3: a non-sentinel field that is not an integer, in a Number or
\* FilteredNumber column, ends parse_reader with ColumnParse(row, field) of
\* that field; nothing is read afterwards and main's entry for the file is
\* that error.
C3_HardError ==
    [][/\ \A c \in Columns :
             (/\ ReadsField(c)
              /\ IsNumeric(column_stats[c])
              /\ ~IsSentinel(FieldRead(c))
              /\ ~Parses(FieldRead(c))) =>
                 /\ pc' = "returned"
                 /\ ret' = Some(Err(ColumnParse(Len(seen[c]), c - 1)))
                 /\ column_stats' = column_stats
       /\ (ret # None /\ ~ret[1].ok /\ ret[1].error.kind = "ColumnParse") =>
             /\ seen' = seen
             /\ column_stats' = column_stats
             /\ ret' = ret
             /\ pc' = "joined" => result' = <<ret[1]>>]_vars

\* the second row's second field failed in a numeric column, and main holds
\* the error
C3_Witness ==
    /\ pc = "joined"
    /\ result = <<Err(ColumnParse(1, 1))>>
    /\ IsNumeric(column_stats[2])
    /\ Len(seen[1]) = 2 /\ Len(seen[2]) = 2

\* the first non-sentinel field of column c is not an integer
FirstValueNotInteger(c) ==
    \E i \in 1..Len(seen[c]) :
        /\ ~IsSentinel(seen[c][i])
        /\ ~Parses(seen[c][i])
        /\ \A j \in 1..(i - 1) : IsSentinel(seen[c][j])

C5_IgnoreListed ==
    \A c \in Columns :
        InIgnoreList(Headers[c]) =>
            /\ column_stats[c] = Ignored
            /\ ret # None =>
                   IF ret[1].ok
                   THEN Headers[c] \notin DOMAIN ret[1].value
                   ELSE ret[1].error.kind = "ColumnParse" =>
                            ret[1].error.field # c - 1

\* an ignore-listed column, which the filter names too, read an integer and
\* then text, and the file was reported
C5_Witness ==
    /\ pc = "joined"
    /\ result[1].ok
    /\ InIgnoreList(Headers[2])
    /\ config.data_config.filter # None
    /\ Len(seen[2]) = 2
    /\ Parses(seen[2][1])
    /\ ~IsSentinel(seen[2][2]) /\ ~Parses(seen[2][2])

\* C6: in a FilteredNumber column an integer that fails the filter leaves
\* the column's statistics and median engine as they were, and a
\* non-sentinel field that is not an integer is a ColumnParse error.
C6_FilteredFrame ==
    [][\A c \in Columns :
          (ReadsField(c) /\ column_stats[c].tag = "FilteredNumber") =>
              /\ (/\ Parses(FieldRead(c))
                  /\ ~unchacked_validate(column_stats[c].expression,
                                         ValueOf(FieldRead(c)))) =>
                     /\ column_stats'[c] = column_stats[c]
                     /\ pc' \in {"fields", "rows"}
              /\ (~IsSentinel(FieldRead(c)) /\ ~Parses(FieldRead(c))) =>
                     /\ pc' = "returned"
                     /\ ret' = Some(Err(ColumnParse(row_index, field_index)))]_vars

\* a FilteredNumber column holding one value read an integer that fails the
\* filter
C6_Witness ==
    /\ Columns # {}
    /\ column_stats[2].tag = "FilteredNumber"
    /\ column_stats[2].stats.count = 1
    /\ Len(seen[2]) = 2
    /\ Parses(seen[2][1]) /\ Parses(seen[2][2])
    /\ unchacked_validate(column_stats[2].expression, ValueOf(seen[2][1]))
    /\ ~unchacked_validate(column_stats[2].expression, ValueOf(seen[2][2]))

\* the statistics of a column that holds no value
EmptyStats(stats) ==
    /\ stats.count = 0
    /\ stats.sum = 0
    /\ stats.min = None
    /\ stats.max = None
    /\ stats.median_approach \in
           { [kind |-> "Exact", heaps |-> [top |-> <<>>, bottom |-> <<>>]],
             [kind |-> "Approximate", ddsketch |-> <<>>] }

\* C7: the first integer an UninitializedWithFilter(expr) column reads makes
\* it FilteredNumber with the same expr, whether or not the value passes;
\* when it fails the filter the new column's statistics are empty.
C7_PromotedRegardless ==
    [][\A c \in Columns :
          (/\ ReadsField(c)
           /\ column_stats[c].tag = "UninitializedWithFilter"
           /\ Parses(FieldRead(c))) =>
              /\ column_stats'[c].tag = "FilteredNumber"
              /\ column_stats'[c].expression = column_stats[c].expression
              /\ ~unchacked_validate(column_stats[c].expression,
                                     ValueOf(FieldRead(c))) =>
                     EmptyStats(column_stats'[c].stats)]_vars

\* a column promoted by an integer that fails its filter
C7_Witness ==
    /\ Columns # {}
    /\ column_stats[2].tag = "FilteredNumber"
    /\ Len(seen[2]) = 1
    /\ Parses(seen[2][1])
    /\ ~unchacked_validate(column_stats[2].expression, ValueOf(seen[2][1]))
    /\ EmptyStats(column_stats[2].stats)

\* the median of a sequence by sorting it, in halves
SortedMedian(values) ==
    LET sorted == SortSeq(values, LAMBDA a, b : a < b)
        n == Len(sorted)
    IN  IF n = 0 THEN None
        ELSE IF n % 2 = 1 THEN Some(2 * sorted[(n + 1) \div 2])
        ELSE Some(sorted[n \div 2] + sorted[(n \div 2) + 1])

\* C8: after any sequence of adds median() is the median of the sorted
\* sequence (the middle element, or the average of the two middle ones),
\* and None when nothing was added.
C8_MedianIsSortedMedian == MedianHeap_median(heap) = SortedMedian(added)

\* an even number of values, added out of order with a duplicate, whose
\* median falls between two integers
C8_Witness ==
    /\ Len(added) = 4
    /\ added[1] > added[2]
    /\ added[3] = added[1]
    /\ MedianHeap_median(heap)[1] % 2 = 1

\* the integers among fields that pass the filter of the column
RECURSIVE Qualifying(_, _)
Qualifying(fields, column) ==
    IF fields = <<>> THEN <<>>
    ELSE LET field == Head(fields)
             rest == Qualifying(Tail(fields), column)
         IN  IF /\ Parses(field)
                /\ column.tag = "FilteredNumber" =>
                       unchacked_validate(column.expression, ValueOf(field))
             THEN <<ValueOf(field)>> \o rest
             ELSE rest

RECURSIVE SumOf(_)
SumOf(values) == IF values = <<>> THEN 0 ELSE Head(values) + SumOf(Tail(values))

Elements(values) == {values[i] : i \in 1..Len(values)}

\* the running sum of the qualifying values of column c leaves the i64 range
\* at its last value
Overflows(c) ==
    /\ c \in Columns
    /\ IsNumeric(column_stats[c])
    /\ LET values == Qualifying(seen[c], column_stats[c])
       IN  SumOf(values) > I64_MAX \/ SumOf(values) < I64_MIN

\* C9: short of an overflow, a numeric column's count, sum, min and max are
\* those of the qualifying values it has read, and min and max are absent
\* exactly when count is 0.
C9_StatsOfQualifying ==
    \A c \in Columns :
        (IsNumeric(column_stats[c]) /\ ~Overflows(c)) =>
            LET stats == column_stats[c].stats
                values == Qualifying(seen[c], column_stats[c])
            IN  /\ stats.count = Len(values)
                /\ stats.sum = SumOf(values)
                /\ stats.count = 0 <=> stats.min = None
                /\ stats.count = 0 <=> stats.max = None
                /\ stats.count > 0 =>
                       /\ stats.min[1] \in Elements(values)
                       /\ stats.max[1] \in Elements(values)
                       /\ \A v \in Elements(values) :
                              stats.min[1] <= v /\ v <= stats.max[1]

\* a Number column that read a greater value and then a smaller one
C9_Witness ==
    /\ Columns # {}
    /\ column_stats[1].tag = "Number"
    /\ column_stats[1].stats.count = 2
    /\ ValueOf(seen[1][1]) > ValueOf(seen[1][2])
    /\ column_stats[1].stats.min = Some(ValueOf(seen[1][2]))
    /\ column_stats[1].stats.max = Some(ValueOf(seen[1][1]))

\* C10: the sum a column holds is the true sum of its qualifying values,
\* never that sum modulo 2^64: at the value that takes the sum out of the
\* i64 range the worker stops without a return value, and main's entry for
\* the file is an error.
C10_SumNeverWraps ==
    /\ \A c \in Columns :
           IsNumeric(column_stats[c]) =>
               /\ column_stats[c].stats.sum >= I64_MIN
               /\ column_stats[c].stats.sum <= I64_MAX
               /\ ~Overflows(c) =>
                      column_stats[c].stats.sum =
                          SumOf(Qualifying(seen[c], column_stats[c]))
    /\ (\E c \in Columns : Overflows(c)) =>
           /\ pc \in {"panicked", "joined", "main_panicked"}
           /\ ret = None
           /\ pc # "panicked" => result = <<Err(ThreadPanic)>>

\* a column whose second value took the sum past the range, reported as an
\* error
C10_Witness ==
    /\ pc = "joined"
    /\ Overflows(2)
    /\ column_stats[2].stats.count = 1
    /\ result = <<Err(ThreadPanic)>>

Abs(x) == IF x < 0 THEN -x ELSE x

\* m hundredths is n / d rounded to the nearest hundredth, a half rounded
\* away from zero
IsRoundedHundredths(m, n, d) ==
    /\ 2 * Abs(100 * n - m * d) <= d
    /\ 2 * Abs(100 * n - m * d) = d => Abs(m * d) > Abs(100 * n)

\* C11: the mean of the into_stats Stats is present exactly when a value was
\* counted, and is then sum / count rounded to two decimal places.
C11_MeanRounded ==
    into_stats # None =>
        /\ into_stats[1].ok
        /\ into_stats[1].stats.mean = None <=> fed = <<>>
        /\ fed # <<>> =>
               IsRoundedHundredths(into_stats[1].stats.mean[1], SumOf(fed), Len(fed))

\* three values whose mean is not a whole number of hundredths and is
\* rounded up
C11_Witness ==
    /\ into_stats # None
    /\ Len(fed) = 3
    /\ (100 * SumOf(fed)) % 3 = 2
    /\ into_stats[1].stats.mean[1] * 3 > 100 * SumOf(fed)

\* the result of file k, in worker k's own record
ReturnedBy(k) == handlers[k].ret[1]

\* C12: the i-th reported result is the result of the i-th input file, in
\* whatever order the workers finish.
C12_ReportedInInputOrder ==
    \A k \in 1..Len(reported) :
        /\ reported[k].file = args.files[k]
        /\ handlers[k].file = args.files[k]
        /\ handlers[k].state = "returned"
        /\ ReturnedBy(k) = Ok(reported[k].output)

C12_Witness ==
    /\ Len(reported) = 2
    /\ args.files[1] # args.files[2]
    /\ finished = <<2, 1>>

\* the program has ended, normally or by a panic of the main thread
MainEnded == mpc \in {"done", "panicked"}

\* C13: when main has ended, every file whose worker returned an output has
\* been reported, whatever the other files' workers returned.
C13_OthersReported ==
    MainEnded =>
        \A i \in 1..Len(main_result) : main_result[i].ok => i <= Len(reported)

\* the join loop has pushed the entry of every handler
JoinLoopOver == mpc \in {"report", "done"} \/ (mpc = "panicked" /\ main_result # <<>>)

\* entry i of the result list is what worker i ended with
ResultPerWorker ==
    /\ JoinLoopOver => Len(main_result) = Len(args.files)
    /\ \A i \in 1..Len(main_result) :
           main_result[i] = IF handlers[i].state = "returned"
                            THEN ReturnedBy(i)
                            ELSE Err(ThreadPanic)

\* C14: after the join loop the result list has one entry per file, worker
\* i's Result or ThreadPanic, and main does not end on a worker's panic.
C14_PanicCaught ==
    /\ ResultPerWorker
    /\ (mpc = "panicked" /\ main_result # <<>>) =>
           handlers[Len(reported) + 1].state # "panicked"

\* the quotient of b by n, rounded down
Floor(b, n) == CHOOSE q \in 0..b : q * n <= b /\ b < (q + 1) * n

\* the worker got past File::open and the choice of the median strategy
Opened(handler) == handler.state # "running" /\ handler.ret # Some(Err(Io))

\* C15: every worker is given floor(B / n) as its budget, fixed before the
\* first spawn, and uses the exact median exactly when the size of its file
\* is at most that budget.
C15_BudgetAndStrategy ==
    LET share == Floor(args.memory_budget, Len(args.files))
    IN  /\ mpc \in {"spawn", "join", "report", "done"} =>
               main_config.median_config.memory_budget = share
        /\ \A i \in DOMAIN handlers :
               /\ handlers[i].config.median_config.memory_budget = share
               /\ Opened(handlers[i]) =>
                      (handlers[i].config.median_config.exact_median
                           <=> SizeOf(handlers[i].file) <= share)

C15_Witness ==
    /\ Len(handlers) = 2
    /\ args.memory_budget % 2 = 1
    /\ Opened(handlers[1])
    /\ Opened(handlers[2])
    /\ handlers[1].config.median_config.exact_median
    /\ ~handlers[2].config.median_config.exact_median
    /\ 2 * SizeOf(handlers[2].file) <= args.memory_budget + 1

\* the places of the spaces in the filter text, and the three tokens of a
\* text with two spaces
SpacesAt == {i \in 1..Len(source) : source[i] = " "}
FirstSpace == CHOOSE i \in SpacesAt : \A j \in SpacesAt : i <= j
LastSpace == CHOOSE i \in SpacesAt : \A j \in SpacesAt : j <= i
FirstToken == SubSeq(source, 1, FirstSpace - 1)
MiddleToken == SubSeq(source, FirstSpace + 1, LastSpace - 1)
LastToken == SubSeq(source, LastSpace + 1, Len(source))

IsInteger(token) == parse_i64(token).ok
IntegerOf(token) == parse_i64(token).value

SixOperators ==
    { <<">">>, <<">", "=">>, <<"<">>, <<"<", "=">>, <<"=", "=">>, <<"!", "=">> }

\* a op b, for the operator as it is written
Compare(a, symbol, b) ==
    CASE symbol = <<">">> -> a > b
      [] symbol = <<">", "=">> -> a >= b
      [] symbol = <<"<">> -> a < b
      [] symbol = <<"<", "=">> -> a <= b
      [] symbol = <<"=", "=">> -> a = b
      [] symbol = <<"!", "=">> -> a # b

\* C16: evaluating a parsed expression on v gives (N op v) for the text
\* "N op col" and (v op N) for the text "col op N", for each operator.
C16_LiteralSidePreserved ==
    evaluated # None =>
        LET v == evaluated[1].value
            symbol == str_trim(MiddleToken)
        IN  /\ ~evaluated[1].panic
            /\ IsInteger(FirstToken) =>
                   (evaluated[1].result
                        <=> Compare(IntegerOf(FirstToken), symbol, v))
            /\ ~IsInteger(FirstToken) =>
                   (evaluated[1].result
                        <=> Compare(v, symbol, IntegerOf(LastToken)))

C16_Witness ==
    /\ evaluated # None
    /\ FirstToken = <<"5">>
    /\ MiddleToken = <<"<">>
    /\ evaluated[1].value = 6
    /\ evaluated[1].result

OneColumnOneNumber(expression) ==
    \/ expression.left.kind = "Column" /\ expression.right.kind = "Number"
    \/ expression.left.kind = "Number" /\ expression.right.kind = "Column"

NeitherIsInteger == ~IsInteger(FirstToken) /\ ~IsInteger(LastToken)

FailedWithFilter == ~parsed[1].ok /\ parsed[1].error = Filter

\* every returned expression has one Column and one Number operand, and its
\* evaluation does not panic
WellConstructed ==
    /\ (parsed # None /\ parsed[1].ok) => OneColumnOneNumber(parsed[1].value)
    /\ evaluated # None => ~evaluated[1].panic

\* C17 as stated: from_str fails with a Filter error when the text is not
\* three tokens a space apart, when the middle token is not one of the six
\* operators, or when neither outer token is an integer; what it returns has
\* one Column and one Number operand and evaluates without a panic.
C17_FromStrFails ==
    /\ parsed # None =>
           ((\/ Cardinality(SpacesAt) # 2
             \/ MiddleToken \notin SixOperators
             \/ NeitherIsInteger) => FailedWithFilter)
    /\ WellConstructed

\* C17 amended: the middle token is compared with the six operators after
\* the white space around it is trimmed.
C17_FromStrFailsTrimmed ==
    /\ parsed # None =>
           ((\/ Cardinality(SpacesAt) # 2
             \/ str_trim(MiddleToken) \notin SixOperators
             \/ NeitherIsInteger) => FailedWithFilter)
    /\ WellConstructed

C17_Witness ==
    /\ parsed # None
    /\ Cardinality(SpacesAt) = 2
    /\ MiddleToken = <<"\t", ">">>
    /\ parsed[1].ok
    /\ evaluated # None

\* parse_file returned an Output, and that Output
ReturnedOk == ret # None /\ ret[1].ok
FileOutput == ret[1].value

AllSentinel(fields) == \A i \in 1..Len(fields) : IsSentinel(fields[i])

\* C18: a column that has read nothing but sentinel and empty fields is in
\* its initial state, and is not in the output of the file.
C18_AllSentinelStaysInitial ==
    \A c \in Columns :
        AllSentinel(seen[c]) =>
            /\ column_stats[c] = InitialColumn(config.data_config, Headers[c])
            /\ ReturnedOk => Headers[c] \notin DOMAIN FileOutput

\* the entry has a minimum, a maximum and a mean
Present(stats) == stats.min # None /\ stats.max # None /\ stats.mean # None
Absent(stats) == stats.min = None /\ stats.max = None /\ stats.mean = None

\* C19 as stated: a column that saw no qualifying integer is not in the
\* output, and every entry of the output has count > 0 behind it and a
\* minimum, a maximum and a mean.
C19_CountBehindEveryEntry ==
    ReturnedOk =>
        \A c \in Columns :
            /\ (\/ ~IsNumeric(column_stats[c])
                \/ Qualifying(seen[c], column_stats[c]) = <<>>) =>
                   Headers[c] \notin DOMAIN FileOutput
            /\ Headers[c] \in DOMAIN FileOutput =>
                   /\ column_stats[c].stats.count > 0
                   /\ Present(FileOutput[Headers[c]])

\* C19 amended: a column left Uninitialized, UninitializedWithFilter or
\* Ignored is not in the output; a Number column is, with count > 0 behind it
\* and a minimum, a maximum and a mean; a FilteredNumber column is, with
\* these three absent exactly when no value passed its filter.
C19_DroppedUnlessNumeric ==
    ReturnedOk =>
        \A c \in Columns :
            /\ ~IsNumeric(column_stats[c]) => Headers[c] \notin DOMAIN FileOutput
            /\ IsNumeric(column_stats[c]) =>
                   /\ Headers[c] \in DOMAIN FileOutput
                   /\ column_stats[c].stats.count > 0 =>
                          Present(FileOutput[Headers[c]])
                   /\ column_stats[c].stats.count = 0 =>
                          Absent(FileOutput[Headers[c]])
            /\ column_stats[c].tag = "Number" => column_stats[c].stats.count > 0

\* a filtered column none of whose values passed, in the output
C19_Witness ==
    /\ ReturnedOk
    /\ column_stats[2].tag = "FilteredNumber"
    /\ column_stats[2].stats.count = 0
    /\ Headers[2] \in DOMAIN FileOutput
    /\ Absent(FileOutput[Headers[2]])

\* C20: the columns of the output come in the order of their headers, each
\* once, whenever the output is iterated.
C20_HeaderOrder ==
    printed # None =>
        printed[1] = SelectSeq(Headers, LAMBDA header : header \in DOMAIN FileOutput)

\* C21: after every add the sizes of bottom and top differ by at most one
\* and sum to the number of values added.
C21_HeapsBalanced ==
    /\ Len(heap.bottom) <= Len(heap.top) + 1
    /\ Len(heap.top) <= Len(heap.bottom) + 1
    /\ Len(heap.bottom) + Len(heap.top) = Len(added)

\* five values, top the larger heap
C21_Witness ==
    /\ Len(added) = 5
    /\ Len(heap.top) = 3
    /\ Len(heap.bottom) = 2

\* C22: after every add every element of bottom is at most every element of
\* top.
C22_BottomBelowTop ==
    \A i \in 1..Len(heap.bottom) :
        \A j \in 1..Len(heap.top) : heap.bottom[i] <= heap.top[j]

\* both heaps hold two values, not all equal
C22_Witness ==
    /\ Len(heap.bottom) = 2
    /\ Len(heap.top) = 2
    /\ heap.bottom[1] < heap.top[2]
    /\ added[4] < added[1]

\* the value the step adds to the heap
AddedValue == added'[Len(added')]

\* C23: at the cross-check of every add the condition bottom > top is false,
\* and bottom is never empty while top holds elements.
C23_SwapNeverTaken ==
    [][added' # added =>
           /\ ~SwapTaken(MedianHeap_rebalanced(heap, AddedValue))
           /\ heap'.top # <<>> => heap'.bottom # <<>>]_vars

\* the extremes of the two heaps meet: the cross-check compares equal values
C23_Witness ==
    /\ Len(added) = 4
    /\ heap.top # <<>>
    /\ BottomPeek(heap.bottom) = TopPeek(heap.top)
    /\ added[4] < added[3]

\* the filter is configured and one of its operands is the column header
FilterNames(header) ==
    /\ config.data_config.filter # None
    /\ \E operand \in {config.data_config.filter[1].left,
                       config.data_config.filter[1].right} :
           operand.kind = "Column" /\ operand.name = header

\* C24: the header row gives each column its initial state from the
\* configuration alone: Ignored for a header in the ignore list, whether or
\* not the filter names it, otherwise UninitializedWithFilter(filter) for the
\* header the filter names, otherwise Uninitialized.
C24_InitialState ==
    [][(pc = "headers" /\ pc' = "rows") =>
           /\ Len(column_stats') = Len(Headers)
           /\ \A c \in 1..Len(Headers) :
                  column_stats'[c] =
                      IF InIgnoreList(Headers[c]) THEN Ignored
                      ELSE IF FilterNames(Headers[c])
                      THEN UninitializedWithFilter(config.data_config.filter[1])
                      ELSE Uninitialized]_vars

\* the header row of a file whose filter names an ignore-listed column
C24_Witness ==
    /\ pc = "rows"
    /\ row_index = 0
    /\ InIgnoreList(Headers[2])
    /\ FilterNames(Headers[2])
    /\ column_stats = <<Uninitialized, Ignored>>

\* what worker i owns: its file, its Config, its place in the file, its
\* column vector and what it returned
Own(handler) ==
    [file |-> handler.file,
     config |-> handler.config,
     pc |-> handler.pc,
     row_index |-> handler.row_index,
     column_stats |-> handler.column_stats,
     state |-> handler.state,
     ret |-> handler.ret]

\* what the file of a worker yields when it is read alone
AloneOutput(file) ==
    OutputOf(file,
             SizeOf(file) <= Floor(args.memory_budget, Len(args.files)),
             Contents(file))

\* C25: a step that changes what one worker owns changes nothing another
\* worker owns nor main's Config; a worker's column vector holds the records
\* of its own file only, and the Output it returns is that of its file read
\* alone, in every interleaving and beside any other files.
C25_NoSharedState ==
    [][/\ \A i, j \in DOMAIN handlers :
              (i # j /\ Own(handlers'[i]) # Own(handlers[i])) =>
                  Own(handlers'[j]) = Own(handlers[j])
       /\ mpc # "main" => main_config' = main_config
       /\ \A i \in DOMAIN handlers' :
              /\ handlers'[i].state = "running" =>
                     handlers'[i].column_stats =
                         SubSeq(Contents(handlers'[i].file), 1,
                                handlers'[i].row_index)
              /\ (handlers'[i].state = "returned" /\ handlers'[i].ret[1].ok) =>
                     handlers'[i].ret[1].value = AloneOutput(args.files[i])]_vars

\* two workers in the middle of their files, one with the exact and one with
\* the approximate median, and the first behind the second
C25_Witness ==
    /\ Len(handlers) = 2
    /\ handlers[1].state = "running"
    /\ handlers[2].state = "running"
    /\ handlers[1].config.median_config.exact_median
    /\ ~handlers[2].config.median_config.exact_median
    /\ handlers[1].row_index = 1
    /\ handlers[2].row_index = 2

\* handler i is spawned and its worker returned an Output
ReturnedOutput(i) ==
    /\ i \in DOMAIN handlers
    /\ handlers[i].state = "returned"
    /\ handlers[i].ret[1].ok

\* the worker of handler i has ended
HasEnded(i) == i \in DOMAIN handlers /\ handlers[i].state # "running"

\* every file has its worker, and beside worker i every worker either
\* returned an Output or reads a file that never ends
OnlyStuckSiblings(i) ==
    /\ Len(handlers) = Len(args.files)
    /\ \A j \in DOMAIN handlers :
           j # i => Blocks(handlers[j].file) \/ ReturnedOutput(j)

\* C26: beside a worker that never finishes, the worker of every other file
\* runs to its end and the Output it returned is eventually reported.
C26_SiblingsReported ==
    \A i \in 1..MaxFiles :
        /\ (i \in DOMAIN handlers /\ ~Blocks(handlers[i].file)) ~> HasEnded(i)
        /\ (ReturnedOutput(i) /\ OnlyStuckSiblings(i)) ~> (Len(reported) >= i)

\* the siblings of a stuck worker run to their end
SiblingsComplete ==
    \A i \in 1..MaxFiles :
        (i \in DOMAIN handlers /\ ~Blocks(handlers[i].file)) ~> HasEnded(i)

\* the median calculation of some numeric column returned an error
SomeMedianFails ==
    \E c \in DOMAIN fin_columns : IsNumeric(fin_columns[c]) /\ fin_fails[c]

\* C27: when the median calculation of any Number or FilteredNumber column
\* returns an error, parse_file returns that error and no Output; otherwise
\* it returns the Output of all the numeric columns.
C27_MedianErrorPropagated ==
    fin_ret # None =>
        IF SomeMedianFails
        THEN fin_ret[1] = Err([kind |-> "DDSketch"])
        ELSE /\ fin_ret[1].ok
             /\ DOMAIN fin_ret[1].value =
                    {Headers[c] : c \in {d \in DOMAIN fin_columns :
                                             IsNumeric(fin_columns[d])}}

\* the first column converts and the second column's sketch fails
C27_Witness ==
    /\ fin_ret # None
    /\ fin_columns[1].tag = "Number"
    /\ ~fin_fails[1]
    /\ fin_columns[2].tag = "FilteredNumber"
    /\ fin_fails[2]
    /\ ~fin_ret[1].ok
====
